---- MODULE Spec2Model ----
(***************************************************************************)
(* State-machine model of the CIRS incident-report server.                 *)
(*                                                                         *)
(* The repository ships several stand-alone server.js files.  Two of them  *)
(* (src/server.js, the express-ejs-layouts copy and the ejs-mate copy) use *)
(* the synchronous better-sqlite3 driver and have statement-for-statement  *)
(* identical route handlers; the third (src/unnamed/part_000) uses the     *)
(* asynchronous sqlite/sqlite3 driver.  A deployment runs exactly one of   *)
(* them, so the variable `variant` is fixed by Init.                       *)
(*                                                                         *)
(* Text values are sequences of characters.  The JavaScript values         *)
(* `undefined` and `null` are the one-element marker sequences Undefined   *)
(* and Null, which contain no character of Chars.                          *)
(***************************************************************************)
EXTENDS Integers, Sequences, FiniteSets, Bags, TLC

\* ------------------------------------------------------------------ bounds
\* Number of HTTP requests that arrive in one behaviour.
MaxReqs == 3
\* Scaled stand-in for the "maximum description length" the specification
\* speaks of (about 5000); the source defines no such constant.
DescMax == 2

\* ------------------------------------------------------------ text values
Undefined == <<"undefined">>
Null == <<"null">>

Rep(c, n) == [i \in 1..n |-> c]

\* String.prototype.trim
RECURSIVE TrimLeft(_)
TrimLeft(s) ==
  IF s = <<>> THEN s
  ELSE IF Head(s) = " " THEN TrimLeft(Tail(s)) ELSE s

RECURSIVE TrimRight(_)
TrimRight(s) ==
  IF s = <<>> THEN s
  ELSE IF s[Len(s)] = " " THEN TrimRight(SubSeq(s, 1, Len(s) - 1)) ELSE s

Trim(s) == TrimRight(TrimLeft(s))

\* String(v)
JsString(v) ==
  IF v = Undefined THEN <<"u", "n", "d", "e", "f", "i", "n", "e", "d">>
  ELSE IF v = Null THEN <<"n", "u", "l", "l">>
  ELSE v

\* !v  for undefined, null and strings
Falsy(v) == v = Undefined \/ v = Null \/ v = <<>>

\* v || null
OrNull(v) == IF Falsy(v) THEN Null ELSE v

\* ---------------------------------------------------------------- requests
Required == <<"category", "when", "location", "title", "description">>
RequiredSet == {Required[i] : i \in 1..Len(Required)}

BodyFields ==
  {"category", "title", "location", "asset", "description", "immediate",
   "when", "contactName", "contactEmail"}

EmptyBody == [f \in BodyFields |-> Undefined]

\* A complete form: every required field filled, every optional one absent.
BaseBody == [f \in BodyFields |-> IF f \in RequiredSet THEN <<"a">> ELSE Undefined]

\* Descriptions besides the one of the complete form: empty, blank, of the
\* maximum length and one character longer.
Descriptions == {<<>>, <<" ">>, Rep("a", DescMax), Rep("a", DescMax + 1)}

\* Request bodies: the complete form, and the complete form with one field
\* changed (a required field absent, or another description).
Bodies ==
  {BaseBody}
    \cup {[BaseBody EXCEPT ![f] = Undefined] : f \in RequiredSet}
    \cup {[BaseBody EXCEPT !["description"] = d] : d \in Descriptions}

Accepts == {"text/html", "application/json"}

\* What a submission sends: any of the bodies as a browser form, and the
\* complete form from a client that asks for JSON.
Submissions ==
  {[body |-> b, accept |-> "text/html"] : b \in Bodies}
    \cup {[body |-> BaseBody, accept |-> "application/json"]}

\* ------------------------------------------------------------------- state
VARIABLES
  variant,   \* which server.js is deployed: "better-sqlite3" or "sqlite"
  mailer,    \* TRUE iff a nodemailer transport was created (SMTP_HOST/USER/PASS set)
  mailTo,    \* TRUE iff process.env.MAIL_TO is set
  db,        \* store handle: "unset", "open" (handle assigned, CREATE TABLE running), "ready"
  reports,   \* table reports: rowid -> row
  seq,       \* sqlite_sequence value of table reports (AUTOINCREMENT)
  now,       \* wall clock, in units of request arrivals
  nreq,      \* number of requests that have arrived
  pending,   \* bag of the handlers suspended at an await
  mails,     \* sendMail calls: rowid -> [attempts, state]
  last       \* outcome of the request handled most recently

vars == <<variant, mailer, mailTo, db, reports, seq, now, nreq, pending, mails, last>>

\* ---------------------------------------------------------------- the store
Max(S) == CHOOSE m \in S : \A x \in S : x <= m

\* Faulty variant: the rowid of the newest row is handed out again.
NextRowidReused(table, s) == Max({s} \cup DOMAIN table)

\* id INTEGER PRIMARY KEY AUTOINCREMENT: one more than the largest rowid the
\* table has ever held.
NextRowid(table, s) == Max({s} \cup DOMAIN table) + 1

\* Faulty variant: the insert replaces the table's contents (INSERT OR REPLACE on a
\* fixed key, or a table re-created per write).
InsertRowReplacing(table, id, row) == [i \in {id} |-> row]

\* INSERT INTO reports ... : adds one row and leaves the others alone.
InsertRow(table, id, row) ==
  [i \in DOMAIN table \cup {id} |-> IF i = id THEN row ELSE table[i]]

\* Faulty variant: the lookup misses rows (compares the key as text).
SelectByIdMissing(table, id) == <<>>

\* SELECT * FROM reports WHERE id = ? : the row of that id, if any.
SelectById(table, id) ==
  IF id \in DOMAIN table THEN <<table[id]>> ELSE <<>>

\* Faulty variant: ORDER BY id ASC
RECURSIVE OrderByIdAsc(_)
OrderByIdAsc(ids) ==
  IF ids = {} THEN <<>>
  ELSE LET m == Max(ids) IN OrderByIdAsc(ids \ {m}) \o <<m>>

\* ORDER BY id DESC
RECURSIVE OrderByIdDesc(_)
OrderByIdDesc(ids) ==
  IF ids = {} THEN <<>>
  ELSE LET m == Max(ids) IN <<m>> \o OrderByIdDesc(ids \ {m})

\* COALESCE(asset, '')
Coalesce(v) == IF v = Null THEN <<>> ELSE v

\* SELECT id, created_at, category, title, location, COALESCE(asset,'') as asset
\* FROM reports ORDER BY id DESC
SelectSummaries(table) ==
  LET ids == OrderByIdDesc(DOMAIN table) IN
  [k \in 1..Len(ids) |->
     [id |-> table[ids[k]].id,
      created_at |-> table[ids[k]].created_at,
      category |-> table[ids[k]].category,
      title |-> table[ids[k]].title,
      location |-> table[ids[k]].location,
      asset |-> Coalesce(table[ids[k]].asset)]]

\* SELECT * FROM reports ORDER BY id DESC
SelectAllDesc(table) ==
  LET ids == OrderByIdDesc(DOMAIN table) IN
  [k \in 1..Len(ids) |-> table[ids[k]]]

\* ---------------------------------------------------------------- responses
Request(route, body, accept, param) ==
  [route |-> route, body |-> body, accept |-> accept, param |-> param]

\* A request that has not been answered.
Unanswered(req) ==
  [route |-> req.route, body |-> req.body, accept |-> req.accept,
   param |-> req.param,
   status |-> 0, type |-> "none", text |-> "", field |-> "", location |-> "",
   jsonKeys |-> {}, rows |-> <<>>, rowid |-> 0, error |-> "none",
   startIds |-> {}]
\* rowid is the id of the row the handler inserted (0: none); startIds are
\* the ids the table held when the request arrived.

SendText(req, status, text) ==
  [Unanswered(req) EXCEPT !.status = status, !.type = "text", !.text = text]

Render(req, view, rows) ==
  [Unanswered(req) EXCEPT !.status = 200, !.type = "render", !.text = view,
                          !.rows = rows]

\* ------------------------------------------------- POST /submit (server.js)
\* The required-field loop: the first field that is falsy or blank, "" if none.
RECURSIVE FirstMissingFrom(_, _)
FirstMissingFrom(body, i) ==
  IF i > Len(Required) THEN ""
  ELSE IF Falsy(body[Required[i]]) \/ Trim(JsString(body[Required[i]])) = <<>>
       THEN Required[i]
       ELSE FirstMissingFrom(body, i + 1)

FirstMissing(body) == FirstMissingFrom(body, 1)

\* Faulty variant: the description is cut to the maximum length before the insert.
SubmitParamsClamped(body, id, t) ==
  [id |-> id,
   created_at |-> t,
   category |-> body.category,
   title |-> body.title,
   location |-> body.location,
   asset |-> OrNull(body.asset),
   description |-> IF Len(body.description) > DescMax
                   THEN SubSeq(body.description, 1, DescMax)
                   ELSE body.description,
   immediate |-> OrNull(body.immediate),
   when_ts |-> body.when,
   tz |-> <<"U", "T", "C">>,
   contact_name |-> OrNull(body.contactName),
   contact_email |-> OrNull(body.contactEmail)]

\* The parameter object bound to the INSERT statement.
SubmitParams(body, id, t) ==
  [id |-> id,
   created_at |-> t,
   category |-> body.category,
   title |-> body.title,
   location |-> body.location,
   asset |-> OrNull(body.asset),
   description |-> body.description,
   immediate |-> OrNull(body.immediate),
   when_ts |-> body.when,
   tz |-> <<"U", "T", "C">>,
   contact_name |-> OrNull(body.contactName),
   contact_email |-> OrNull(body.contactEmail)]

\* Faulty variant: the recipient is not checked.
MailConfiguredTransportOnly(m, to) == m

\* if (mailer && process.env.MAIL_TO)
MailConfigured(m, to) == m /\ to

\* mailer.sendMail(...) for the row just inserted: one more attempt, in flight.
SendMail(ms, id) ==
  [i \in DOMAIN ms \cup {id} |->
     IF i = id
     THEN [attempts |-> (IF id \in DOMAIN ms THEN ms[id].attempts ELSE 0) + 1,
           state |-> "pending"]
     ELSE ms[i]]

\* Faulty variant: the handler answers JSON to a client that accepts JSON.
SubmitReplyNegotiated(req, id) ==
  IF req.accept = "application/json"
  THEN [Unanswered(req) EXCEPT !.status = 200, !.type = "json",
                               !.jsonKeys = {"ok", "id"}, !.rowid = id]
  ELSE [Unanswered(req) EXCEPT !.status = 302, !.type = "redirect",
                               !.location = "/?ok=1", !.rowid = id]

\* Faulty variant: the handler reports a gateway error after the insert.
SubmitReplyBadGateway(req, id) ==
  [Unanswered(req) EXCEPT !.status = 502, !.type = "text",
                          !.text = "saved, mail failed", !.rowid = id]

\* The answer to a submission whose insert returned: res.redirect("/?ok=1").
SubmitReply(req, id) ==
  [Unanswered(req) EXCEPT !.status = 302, !.type = "redirect",
                          !.location = "/?ok=1", !.rowid = id]

\* app.use((err, req, res, next) => ...) of server.js
ErrorHandler(req) ==
  [SendText(req, 500, "Interner Fehler") EXCEPT !.error = "storage"]

\* --------------------------------------------------------------------- Init
\* server.js opens the database and creates the table synchronously before
\* app.listen; part_000 starts listening while its async initialiser has not
\* yet assigned db.  The database file is fresh.  part_000 has no mailer.
Init ==
  /\ variant \in {"better-sqlite3", "sqlite"}
  /\ mailer \in BOOLEAN
  /\ mailTo \in BOOLEAN
  /\ variant = "sqlite" => (~mailer /\ ~mailTo)
  /\ db = IF variant = "better-sqlite3" THEN "ready" ELSE "unset"
  /\ reports = <<>>
  /\ seq = 0
  /\ now = 0
  /\ nreq = 0
  /\ pending = EmptyBag
  /\ mails = <<>>
  /\ last = Unanswered(Request("", EmptyBody, "", 0))

Sync == variant = "better-sqlite3"
Async == variant = "sqlite"

\* A request arrives; the clock has advanced since the previous arrival.
Arrive ==
  /\ nreq < MaxReqs
  /\ nreq' = nreq + 1
  /\ now' = now + 1

\* ------------------------------------------------------- server.js handlers
\* app.get("/healthz")
Healthz ==
  /\ Sync
  /\ Arrive
  /\ last' = SendText(Request("GET /healthz", EmptyBody, "", 0), 200, "ok")
  /\ UNCHANGED <<variant, mailer, mailTo, db, reports, seq, pending, mails>>

\* app.get("/")
List ==
  /\ Sync
  /\ Arrive
  /\ last' = [Render(Request("GET /", EmptyBody, "", 0), "list",
                     SelectSummaries(reports))
                EXCEPT !.startIds = DOMAIN reports]
  /\ UNCHANGED <<variant, mailer, mailTo, db, reports, seq, pending, mails>>

\* app.get("/report/:id")
GetReport ==
  /\ Sync
  /\ Arrive
  /\ \E id \in 1..MaxReqs :
       LET req == Request("GET /report/:id", EmptyBody, "", id)
           row == SelectById(reports, id)
       IN last' = IF row = <<>> THEN SendText(req, 404, "Not found")
                  ELSE Render(req, "new", row)
  /\ UNCHANGED <<variant, mailer, mailTo, db, reports, seq, pending, mails>>

\* app.get("/new")
NewForm ==
  /\ Sync
  /\ Arrive
  /\ last' = Render(Request("GET /new", EmptyBody, "", 0), "new", <<>>)
  /\ UNCHANGED <<variant, mailer, mailTo, db, reports, seq, pending, mails>>

\* app.post("/submit"); `stored` is FALSE when stmt.run throws.
Submit ==
  /\ Sync
  /\ Arrive
  /\ \E sub \in Submissions, stored \in BOOLEAN :
       LET body == sub.body
           req == Request("POST /submit", body, sub.accept, 0)
           f == FirstMissing(body)
           id == NextRowid(reports, seq)
       IN IF f # ""
          THEN /\ last' = [SendText(req, 400, "Feld fehlt") EXCEPT !.field = f]
               /\ UNCHANGED <<reports, seq, mails>>
          ELSE IF ~stored
          THEN /\ last' = ErrorHandler(req)
               /\ UNCHANGED <<reports, seq, mails>>
          ELSE /\ reports' = InsertRow(reports, id, SubmitParams(body, id, now'))
               /\ seq' = id
               /\ mails' = IF MailConfigured(mailer, mailTo)
                           THEN SendMail(mails, id) ELSE mails
               /\ last' = SubmitReply(req, id)
  /\ UNCHANGED <<variant, mailer, mailTo, db, pending>>

\* The promise of sendMail resolves.
MailDelivered ==
  /\ \E id \in DOMAIN mails :
       /\ mails[id].state = "pending"
       /\ mails' = [mails EXCEPT ![id].state = "sent"]
  /\ UNCHANGED <<variant, mailer, mailTo, db, reports, seq, now, nreq, pending, last>>

\* Faulty variant: the .catch callback deletes the row whose mail failed.
OnMailErrorRollback(table, id) == [i \in DOMAIN table \ {id} |-> table[i]]

\* What the .catch callback of sendMail does to the table: it only warns.
OnMailError(table, id) == table

\* The promise of sendMail rejects; .catch logs a warning.
MailFailed ==
  /\ \E id \in DOMAIN mails :
       /\ mails[id].state = "pending"
       /\ mails' = [mails EXCEPT ![id].state = "failed"]
       /\ reports' = OnMailError(reports, id)
  /\ UNCHANGED <<variant, mailer, mailTo, db, seq, now, nreq, pending, last>>

\* ------------------------------------------------------ part_000: start-up
\* db = await open(...) resumes: the handle is assigned and, in the same
\* turn, db.exec(CREATE TABLE IF NOT EXISTS ...) is issued.
DbOpened ==
  /\ Async
  /\ db = "unset"
  /\ db' = "open"
  /\ UNCHANGED <<variant, mailer, mailTo, reports, seq, now, nreq, pending, mails, last>>

\* await db.exec(...) resumes: the table exists.  sqlite3 runs exec
\* exclusively, so statements issued meanwhile wait for it.
DbSchemaCreated ==
  /\ Async
  /\ db = "open"
  /\ db' = "ready"
  /\ UNCHANGED <<variant, mailer, mailTo, reports, seq, now, nreq, pending, mails, last>>

\* ------------------------------------------------------ part_000: handlers
\* A handler suspended at an await.
Suspend(req, at, ids) ==
  [route |-> req.route, body |-> req.body, accept |-> req.accept,
   param |-> req.param, at |-> at, startIds |-> ids]

Park(c) == pending (+) SetToBag({c})
Unpark(c) == pending (-) SetToBag({c})
ReqOf(c) == Request(c.route, c.body, c.accept, c.param)

\* A method call on db while db is still undefined throws a TypeError.
DbUndefined(handle) == handle = "unset"

\* An async handler without try/catch rejects.  Express 4 leaves the request
\* unanswered; Express 5 passes the error to the error middleware.
Rejected(req) ==
  {[Unanswered(req) EXCEPT !.error = "TypeError"],
   [SendText(req, 500, "Interner Fehler - siehe Logs.") EXCEPT !.error = "TypeError"]}

\* app.get("/") up to its first await
ListAsync ==
  /\ Async
  /\ Arrive
  /\ LET req == Request("GET /", EmptyBody, "", 0) IN
       /\ pending' = Park(Suspend(req, IF DbUndefined(db) THEN "sleep" ELSE "all",
                                  DOMAIN reports))
       /\ last' = last
  /\ UNCHANGED <<variant, mailer, mailTo, db, reports, seq, mails>>

\* the 300 ms timer of app.get("/") fires; db.all is called
ListWake ==
  /\ \E c \in BagToSet(pending) :
       /\ c.at = "sleep"
       /\ IF DbUndefined(db)
          THEN /\ pending' = Unpark(c)
               /\ last' \in Rejected(ReqOf(c))
          ELSE /\ pending' = Unpark(c) (+) SetToBag({[c EXCEPT !.at = "all"]})
               /\ last' = last
  /\ UNCHANGED <<variant, mailer, mailTo, db, reports, seq, now, nreq, mails>>

\* await db.all(...) of app.get("/") resumes
ListDone ==
  /\ db = "ready"
  /\ \E c \in BagToSet(pending) :
       /\ c.at = "all"
       /\ pending' = Unpark(c)
       /\ last' = [Render(ReqOf(c), "list", SelectAllDesc(reports))
                     EXCEPT !.startIds = c.startIds]
  /\ UNCHANGED <<variant, mailer, mailTo, db, reports, seq, now, nreq, mails>>

\* app.get("/new")
NewFormAsync ==
  /\ Async
  /\ Arrive
  /\ last' = Render(Request("GET /new", EmptyBody, "", 0), "new", <<>>)
  /\ UNCHANGED <<variant, mailer, mailTo, db, reports, seq, pending, mails>>

\* The values bound to the INSERT of /api/report; undefined binds as NULL and
\* created_at takes its default CURRENT_TIMESTAMP.
ToSql(v) == IF v = Undefined THEN Null ELSE v

ApiParams(body, id, t) ==
  [id |-> id,
   category |-> ToSql(body.category),
   title |-> ToSql(body.title),
   location |-> ToSql(body.location),
   asset |-> ToSql(body.asset),
   description |-> ToSql(body.description),
   immediate |-> ToSql(body.immediate),
   when_ts |-> ToSql(body.when),
   contact_name |-> ToSql(body.contactName),
   contact_email |-> ToSql(body.contactEmail),
   created_at |-> t]

\* res.status(200).json({ ok: true })
ApiReply(req, id) ==
  [Unanswered(req) EXCEPT !.status = 200, !.type = "json", !.jsonKeys = {"ok"},
                          !.rowid = id]

\* res.status(500).json({ ok: false, error: err.message })
ApiError(req, error) ==
  [Unanswered(req) EXCEPT !.status = 500, !.type = "json",
                          !.jsonKeys = {"ok", "error"}, !.error = error]

\* app.post("/api/report") up to its await
ApiReport ==
  /\ Async
  /\ Arrive
  /\ \E sub \in Submissions :
       LET req == Request("POST /api/report", sub.body, sub.accept, 0) IN
       IF DbUndefined(db)
       THEN /\ last' = ApiError(req, "TypeError")
            /\ pending' = pending
       ELSE /\ pending' = Park(Suspend(req, "run", {}))
            /\ last' = last
  /\ UNCHANGED <<variant, mailer, mailTo, db, reports, seq, mails>>

\* await db.run(...) of app.post("/api/report") resumes; `stored` is FALSE
\* when the statement fails.
ApiReportDone ==
  /\ db = "ready"
  /\ \E c \in BagToSet(pending), stored \in BOOLEAN :
       LET req == ReqOf(c)
           id == NextRowid(reports, seq)
       IN /\ c.at = "run"
          /\ pending' = Unpark(c)
          /\ IF stored
             THEN /\ reports' = InsertRow(reports, id, ApiParams(req.body, id, now))
                  /\ seq' = id
                  /\ last' = ApiReply(req, id)
             ELSE /\ last' = ApiError(req, "storage")
                  /\ UNCHANGED <<reports, seq>>
  /\ UNCHANGED <<variant, mailer, mailTo, db, now, nreq, mails>>

\* app.get("/report/:id") up to its await
GetReportAsync ==
  /\ Async
  /\ Arrive
  /\ \E id \in 1..MaxReqs :
       LET req == Request("GET /report/:id", EmptyBody, "", id) IN
       IF DbUndefined(db)
       THEN /\ last' \in Rejected(req)
            /\ pending' = pending
       ELSE /\ pending' = Park(Suspend(req, "get", {}))
            /\ last' = last
  /\ UNCHANGED <<variant, mailer, mailTo, db, reports, seq, mails>>

\* await db.get(...) of app.get("/report/:id") resumes
GetReportDone ==
  /\ db = "ready"
  /\ \E c \in BagToSet(pending) :
       LET req == ReqOf(c)
           row == SelectById(reports, req.param)
       IN /\ c.at = "get"
          /\ pending' = Unpark(c)
          /\ last' = IF row = <<>> THEN SendText(req, 404, "Meldung nicht gefunden.")
                     ELSE Render(req, "new", row)
  /\ UNCHANGED <<variant, mailer, mailTo, db, reports, seq, now, nreq, mails>>

\* app.use((req, res) => res.status(404)...): every other route, among them
\* POST /submit and GET /healthz
NotFound ==
  /\ Async
  /\ Arrive
  /\ \E route \in {"POST /submit", "GET /healthz"} :
       last' = SendText(Request(route, EmptyBody, "", 0), 404,
                        "Seite nicht gefunden")
  /\ UNCHANGED <<variant, mailer, mailTo, db, reports, seq, pending, mails>>

NextSync == Healthz \/ List \/ GetReport \/ NewForm \/ Submit \/ MailDelivered \/ MailFailed

NextAsync ==
  \/ DbOpened \/ DbSchemaCreated
  \/ ListAsync \/ ListWake \/ ListDone
  \/ NewFormAsync
  \/ ApiReport \/ ApiReportDone
  \/ GetReportAsync \/ GetReportDone
  \/ NotFound

Next == NextSync \/ NextAsync

Spec == Init /\ [][Next]_vars


\* =========================================================== the claims
\* Number of requests whose handling has ended.
Answered == nreq - BagCardinality(pending)

\* This step ends the handling of a request; last' is its outcome.
Responds == nreq' - BagCardinality(pending') = Answered + 1

\* The outcome of the submission route of the deployed server.
IsSubmission(r) ==
  \/ Sync /\ r.route = "POST /submit"
  \/ Async /\ r.route = "POST /api/report"

\* A required field is absent or empty after trimming.
Missing(body) ==
  \E f \in RequiredSet : body[f] = Undefined \/ Trim(body[f]) = <<>>

\* A success response: the redirect to /?ok=1 or a JSON body with ok.
IsSuccess(r) ==
  \/ r.type = "redirect" /\ r.location = "/?ok=1"
  \/ r.type = "json" /\ r.status = 200

RowIds(rows) == [k \in 1..Len(rows) |-> rows[k].id]

\* C1: a submission with a required field absent or empty after trimming is
\* answered with 400 and inserts no row (a handler that died of an error
\* before it could answer is left to C5).
C1_MissingFieldRejected ==
  (IsSubmission(last) /\ Missing(last.body) /\ last.error = "none")
    => (last.status = 400 /\ last.rowid = 0 /\ last.rowid \notin DOMAIN reports)

\* C2: a step adds at most one row; a submission answered with success added
\* exactly one, a submission answered otherwise none; the id of a new row is
\* greater than every id assigned before, so ids increase in the order in
\* which the inserts complete.
C2_OneRowLargerId ==
  [][LET new == DOMAIN reports' \ DOMAIN reports IN
       /\ Cardinality(new) <= 1
       /\ \A id \in new : id > seq /\ \A j \in DOMAIN reports : id > j
       /\ (Responds /\ IsSubmission(last'))
            => IF IsSuccess(last')
               THEN new = {last'.rowid}
               ELSE new = {}]_vars

C2_Witness ==
  /\ IsSubmission(last) /\ IsSuccess(last)
  /\ last.rowid = 2
  /\ DOMAIN reports = {1, 2}

\* C3: when the delivery for a submission has failed, its row is in the
\* table as inserted, delivery was attempted once, and GET /report/:id for
\* its id answers 200 with that row.
C3_FailedMailKeepsRow ==
  \A id \in DOMAIN mails :
    mails[id].state = "failed" =>
      /\ id \in DOMAIN reports
      /\ reports[id].id = id
      /\ mails[id].attempts = 1
      /\ (last.route = "GET /report/:id" /\ last.param = id)
           => (last.status = 200 /\ last.rows = <<reports[id]>>)

C3_Witness ==
  /\ 1 \in DOMAIN mails
  /\ mails[1].state = "failed"
  /\ last.route = "GET /report/:id" /\ last.param = 1 /\ last.status = 200

\* C4 as claimed: the submission whose delivery failed was answered with 502
\* and not with a success response.
C4_FailedMailAnswered502 ==
  \A id \in DOMAIN mails :
    (mails[id].state = "failed" /\ last.route = "POST /submit" /\ last.rowid = id)
      => (last.status = 502 /\ ~IsSuccess(last))

\* C4 as amended: a persisted submission is answered with the redirect to
\* /?ok=1 whatever becomes of its delivery, and no response is a 502.
C4_FailedMailAnsweredRedirect ==
  /\ last.status # 502
  /\ \A id \in DOMAIN mails :
       (last.route = "POST /submit" /\ last.rowid = id)
         => (last.status = 302 /\ last.type = "redirect" /\ last.location = "/?ok=1")

C4_Witness ==
  /\ 1 \in DOMAIN mails
  /\ mails[1].state = "failed"
  /\ last.route = "POST /submit" /\ last.rowid = 1 /\ last.status = 302

\* C5: no handler calls the store while the store handle is unset.
C5_StoreReadyBeforeUse == last.error # "TypeError"

\* C6: no step changes or removes a row of the table.
C6_RowsImmutable ==
  [][\A id \in DOMAIN reports :
       id \in DOMAIN reports' /\ reports'[id] = reports[id]]_vars

C6_Witness ==
  /\ DOMAIN reports = {1, 2}
  /\ reports[1].id = 1
  /\ last.route = "GET /report/:id"

\* C7: the list GET / renders is in strictly descending id order and holds
\* every report that was in the table when the request arrived.
C7_ListDescendingAndFresh ==
  (last.route = "GET /" /\ last.status = 200) =>
    LET ids == RowIds(last.rows) IN
      /\ \A k \in 1..(Len(ids) - 1) : ids[k] > ids[k + 1]
      /\ \A id \in last.startIds : \E k \in 1..Len(ids) : ids[k] = id

C7_Witness ==
  /\ last.route = "GET /" /\ last.status = 200
  /\ Len(last.rows) >= 2
  /\ last.startIds # {}

\* C8 as claimed: a successful submission is answered with JSON carrying
\* ok and id when the client accepts JSON, and with the redirect to /?ok=1
\* otherwise, on either endpoint.
C8_ReplyFollowsAccept ==
  (IsSubmission(last) /\ last.rowid # 0) =>
    IF last.accept = "application/json"
    THEN last.type = "json" /\ last.jsonKeys = {"ok", "id"}
    ELSE last.type = "redirect" /\ last.location = "/?ok=1"

\* C8 as amended: a successful POST /submit is answered with the redirect to
\* /?ok=1 and a successful POST /api/report with the JSON body {ok: true},
\* which carries no id, whatever the request accepts.
C8_ReplyFollowsEndpoint ==
  (IsSubmission(last) /\ last.rowid # 0) =>
    /\ last.route = "POST /submit"
         => (last.status = 302 /\ last.type = "redirect" /\ last.location = "/?ok=1")
    /\ last.route = "POST /api/report"
         => (last.status = 200 /\ last.type = "json" /\ last.jsonKeys = {"ok"})

C8_Witness ==
  /\ last.route = "POST /submit"
  /\ last.accept = "application/json"
  /\ last.rowid # 0
  /\ last.type = "redirect"

\* C9 as claimed: every stored description is at most the maximum length.
C9_DescriptionCapped ==
  \A id \in DOMAIN reports :
    reports[id].description # Null => Len(reports[id].description) <= DescMax

\* C9 as amended: a submitted description is stored exactly as submitted,
\* whatever its length; one longer than the maximum is stored whole.
C9_DescriptionStoredWhole ==
  (IsSubmission(last) /\ last.rowid # 0 /\ last.body.description # Undefined) =>
    /\ last.rowid \in DOMAIN reports
    /\ reports[last.rowid].description = last.body.description

C9_Witness ==
  /\ IsSubmission(last) /\ last.rowid \in DOMAIN reports
  /\ Len(last.body.description) = DescMax + 1
  /\ Len(reports[last.rowid].description) = DescMax + 1

\* C10: every delivery attempt is for a row that is in the table, each row
\* has at most one attempt, attempts exist only when transport and recipient
\* are configured, and a submission answered 400 or 500 adds no attempt.
C10_MailOnlyAfterInsert ==
  [][/\ \A id \in DOMAIN mails' :
          /\ id \in DOMAIN reports'
          /\ mails'[id].attempts = 1
          /\ mailer' /\ mailTo'
     /\ (Responds /\ last'.route = "POST /submit" /\ last'.status \in {400, 500})
          => (mails' = mails /\ last'.rowid = 0)]_vars

C10_Witness ==
  /\ 1 \in DOMAIN mails
  /\ mails[1].attempts = 1
  /\ last.route = "POST /submit" /\ last.status \in {400, 500}

====
